---- MODULE Spec2Model ----
(***************************************************************************)
(* panic-safe: catch_oom turns an allocation failure inside a closure into *)
(* Err(AllocError) and lets every other panic abort the process.           *)
(*                                                                         *)
(* The model follows src/src/lib.rs statement by statement.  Each thread   *)
(* has a position in catch_oom (pc) and a position in the handling of a    *)
(* fault it raised (fault).  The two hook slots of the runtime, the flag   *)
(* SET_HOOK and the abort of the process are shared; the mailbox           *)
(* THREAD_ALLOC_ERROR is one cell per thread.                              *)
(*                                                                         *)
(* A closure given to catch_oom is modelled by its outcome at              *)
(* catch_unwind: it returns a value, it hits an allocation failure, or it  *)
(* raises another panic.  The closure does not handle panic payloads       *)
(* itself: it neither catches an unwind raised inside it (catch_unwind)    *)
(* nor re-raises one past the panic hook (resume_unwind).  Code of the     *)
(* application outside catch_oom can raise the same two faults; an unwind  *)
(* outside catch_oom either ends the thread or is caught by a handler of   *)
(* the application (a worker pool that survives the panic of a job).       *)
(***************************************************************************)
EXTENDS Naturals, FiniteSets, Sequences, TLC

\* ------------------------------------------------------------------ bounds
NumThreads == 2
\* catch_oom invocations plus faults raised outside catch_oom, over all threads
MaxEvents == 3

Threads == 1..NumThreads

\* Layouts a closure may request, and the values it may return.
Layouts == { [size |-> 1048576, align |-> 8], [size |-> 64, align |-> 16] }
Values == {42, 7}

\* Layout::new::<Hook>() of line 116: a boxed trait object is a fat pointer.
HookLayout == [size |-> 16, align |-> 8]

\* ------------------------------------------------------------- AllocError
\* pub struct AllocError(Layout)
AllocError_new(l) == [l0 |-> l]
layout(self) == self.l0

\* Option<T>
None == << >>
Some(x) == << x >>

\* Result<R, AllocError>, and "catch_oom has not returned"
Ok(r) == [ok |-> r]
Err(e) == [err |-> e]
NoResult == [pending |-> TRUE]
IsOk(r) == DOMAIN r = {"ok"}
IsErr(r) == DOMAIN r = {"err"}

\* ------------------------------------------------------------------ state
VARIABLES
    SET_HOOK,        \* static SET_HOOK: AtomicBool
    panicHook,       \* the runtime's panic hook slot: "default" or "panic_hook"
    allocHook,       \* the runtime's alloc error hook slot: "default" or "oom_hook"
    mailbox,         \* THREAD_ALLOC_ERROR, one Cell<Option<AllocError>> per thread
    pc,              \* each thread's position in catch_oom
    fault,           \* each thread's position in the handling of a fault, with
                     \* its origin and the value of SET_HOOK when it was raised
    caught,          \* the value of catch_unwind(f), read by the match
    result,          \* what the current catch_oom invocation returned
    abortedBy,       \* 0, or the thread that called process::abort
    debugAssertions, \* the build: debug_assert! compiled in or out
    comp,            \* history: the outcome of the closure of this invocation
    held,            \* history: the mailbox when the invocation was entered
    registrars,      \* history: the threads that executed set_hook
    allocRegistrars, \* history: the threads that executed set_alloc_error_hook
    injectOnFull,    \* history: inject was called on a mailbox holding a value
    hitUnreachable,  \* history: unreachable!() of line 128 was executed
    events           \* invocations and outside faults so far (bounded by MaxEvents)

vars == << SET_HOOK, panicHook, allocHook, mailbox, pc, fault, caught, result,
           abortedBy, debugAssertions, comp, held, registrars,
           allocRegistrars, injectOnFull, hitUnreachable, events >>

NoFault == [at |-> "none"]
NoComp == [kind |-> "none"]
NoCatch == [pending |-> TRUE]

Running == abortedBy = 0


\* ------------------------------------------------------ ThreadAllocError
\* Mutant of has_error: the cell is a process-wide static, not a thread_local.
has_error_any(mb, t) == \E u \in DOMAIN mb : mb[u] # None

\* has_error: THREAD_ALLOC_ERROR.with(|error| error.get().is_some())
has_error(mb, t) == mb[t] # None

\* Mutant of inject: the descriptor is not stored.
inject_drop(mb, t, e) == mb

\* Mutant of inject: the descriptor is stored in every thread's cell.
inject_shared(mb, t, e) == [u \in DOMAIN mb |-> Some(e)]

\* inject: error.set(Some(e)) on the calling thread's cell
inject(mb, t, e) == [mb EXCEPT ![t] = Some(e)]

\* Mutant of take: the cell is emptied and the value read is dropped.
take_lose(mb, t) == [ret |-> None, mb |-> [mb EXCEPT ![t] = None]]

\* Mutant of take: error.get() in place of error.take(), the cell keeps its value.
take_peek(mb, t) == [ret |-> mb[t], mb |-> mb]

\* take: error.take(): the value read, and the cell left holding None
take(mb, t) == [ret |-> mb[t], mb |-> [mb EXCEPT ![t] = None]]

\* Mutant of clear: the call is left out.
clear_noop(mb, t) == mb

\* clear: let _ = ThreadAllocError::take()
clear(mb, t) == take(mb, t).mb

\* Mutant of panic_hook: the hook never aborts.
PanicHookAborts_never(mb, t) == FALSE

\* Mutant of panic_hook: the test of line 109 without its negation.
PanicHookAborts_inverted(mb, t) == has_error(mb, t)

\* panic_hook: abort unless the calling thread's mailbox holds an error
PanicHookAborts(mb, t) == ~has_error(mb, t)

\* Mutant of the gate: the registration is entered whatever the load reads.
GateOpen_always(flag) == TRUE

\* Mutant of the gate: the registration is never entered.
GateOpen_never(flag) == FALSE

\* The gate of line 115: the registration is entered when the load reads false.
GateOpen(flag) == ~flag

\* --------------------------------------------------------------- Init
Init ==
    /\ SET_HOOK = FALSE
    /\ panicHook = "default"
    /\ allocHook = "default"
    /\ mailbox = [t \in Threads |-> None]
    /\ pc = [t \in Threads |-> "idle"]
    /\ fault = [t \in Threads |-> NoFault]
    /\ caught = [t \in Threads |-> NoCatch]
    /\ result = [t \in Threads |-> NoResult]
    /\ abortedBy = 0
    /\ debugAssertions \in BOOLEAN
    /\ comp = [t \in Threads |-> NoComp]
    /\ held = [t \in Threads |-> None]
    /\ registrars = {}
    /\ allocRegistrars = {}
    /\ injectOnFull = FALSE
    /\ hitUnreachable = FALSE
    /\ events = 0

\* ------------------------------------------------------------ catch_oom
\* The caller enters catch_oom(f).
Call(t) ==
    /\ Running /\ pc[t] = "idle" /\ fault[t] = NoFault
    /\ events < MaxEvents
    /\ events' = events + 1
    /\ pc' = [pc EXCEPT ![t] = "load"]
    /\ result' = [result EXCEPT ![t] = NoResult]
    /\ comp' = [comp EXCEPT ![t] = NoComp]
    /\ held' = [held EXCEPT ![t] = mailbox[t]]
    /\ UNCHANGED << SET_HOOK, panicHook, allocHook, mailbox, fault, caught,
                    abortedBy, debugAssertions, registrars, allocRegistrars,
                    injectOnFull, hitUnreachable >>

\* Mutant of the load of line 115: the mailbox is cleared before the check.
LoadFlag_clearsFirst(t) ==
    /\ Running /\ pc[t] = "load"
    /\ mailbox' = clear(mailbox, t)
    /\ pc' = [pc EXCEPT ![t] = IF GateOpen(SET_HOOK) THEN "try_new" ELSE "clear"]
    /\ UNCHANGED << SET_HOOK, panicHook, allocHook, fault, caught, result,
                    abortedBy, debugAssertions, comp, held, registrars,
                    allocRegistrars, injectOnFull, hitUnreachable, events >>

\* Mutant of the load of line 115: a thread that finds another thread inside
\* the registration waits for it, as behind a lock.
LoadFlag_waits(t) ==
    /\ Running /\ pc[t] = "load"
    /\ \A u \in Threads \ {t} : pc[u] \notin {"try_new", "set_alloc_error_hook", "store"}
    /\ pc' = [pc EXCEPT ![t] = IF GateOpen(SET_HOOK) THEN "try_new" ELSE "clear"]
    /\ UNCHANGED << SET_HOOK, panicHook, allocHook, mailbox, fault, caught, result,
                    abortedBy, debugAssertions, comp, held, registrars,
                    allocRegistrars, injectOnFull, hitUnreachable, events >>

\* line 115: if !SET_HOOK.load(Ordering::Acquire)
LoadFlag(t) ==
    /\ Running /\ pc[t] = "load"
    /\ pc' = [pc EXCEPT ![t] = IF GateOpen(SET_HOOK) THEN "try_new" ELSE "clear"]
    /\ UNCHANGED << SET_HOOK, panicHook, allocHook, mailbox, fault, caught, result,
                    abortedBy, debugAssertions, comp, held, registrars,
                    allocRegistrars, injectOnFull, hitUnreachable, events >>

\* Mutant of the failing try_new: the mailbox is cleared before the return.
TryNewErr_clears(t) ==
    /\ Running /\ pc[t] = "try_new"
    /\ pc' = [pc EXCEPT ![t] = "idle"]
    /\ mailbox' = clear(mailbox, t)
    /\ result' = [result EXCEPT ![t] = Err(AllocError_new(HookLayout))]
    /\ UNCHANGED << SET_HOOK, panicHook, allocHook, fault, caught,
                    abortedBy, debugAssertions, comp, held, registrars,
                    allocRegistrars, injectOnFull, hitUnreachable, events >>

\* line 116: Box::try_new(panic_hook) fails; map_err and ? return the error
TryNewErr(t) ==
    /\ Running /\ pc[t] = "try_new"
    /\ pc' = [pc EXCEPT ![t] = "idle"]
    /\ result' = [result EXCEPT ![t] = Err(AllocError_new(HookLayout))]
    /\ UNCHANGED << SET_HOOK, panicHook, allocHook, mailbox, fault, caught,
                    abortedBy, debugAssertions, comp, held, registrars,
                    allocRegistrars, injectOnFull, hitUnreachable, events >>

\* lines 116-117: Box::try_new(panic_hook) succeeds; std::panic::set_hook(hook)
SetHook(t) ==
    /\ Running /\ pc[t] = "try_new"
    /\ panicHook' = "panic_hook"
    /\ registrars' = registrars \cup {t}
    /\ pc' = [pc EXCEPT ![t] = "set_alloc_error_hook"]
    /\ UNCHANGED << SET_HOOK, allocHook, mailbox, fault, caught, result,
                    abortedBy, debugAssertions, comp, held,
                    allocRegistrars, injectOnFull, hitUnreachable, events >>

\* line 118: std::alloc::set_alloc_error_hook(oom_hook)
SetAllocErrorHook(t) ==
    /\ Running /\ pc[t] = "set_alloc_error_hook"
    /\ allocHook' = "oom_hook"
    /\ allocRegistrars' = allocRegistrars \cup {t}
    /\ pc' = [pc EXCEPT ![t] = "store"]
    /\ UNCHANGED << SET_HOOK, panicHook, mailbox, fault, caught, result,
                    abortedBy, debugAssertions, comp, held,
                    registrars, injectOnFull, hitUnreachable, events >>

\* Mutant of the store of line 119: the flag is toggled, not set.
StoredFlag_toggle(flag) == ~flag

\* The value of the flag after the store of line 119, whatever it was before.
StoredFlag(flag) == TRUE

\* line 119: SET_HOOK.store(true, Ordering::Release)
StoreFlag(t) ==
    /\ Running /\ pc[t] = "store"
    /\ SET_HOOK' = StoredFlag(SET_HOOK)
    /\ pc' = [pc EXCEPT ![t] = "clear"]
    /\ UNCHANGED << panicHook, allocHook, mailbox, fault, caught, result,
                    abortedBy, debugAssertions, comp, held, registrars,
                    allocRegistrars, injectOnFull, hitUnreachable, events >>

\* line 122: ThreadAllocError::clear()
Clear(t) ==
    /\ Running /\ pc[t] = "clear"
    /\ mailbox' = clear(mailbox, t)
    /\ pc' = [pc EXCEPT ![t] = "run"]
    /\ UNCHANGED << SET_HOOK, panicHook, allocHook, fault, caught, result,
                    abortedBy, debugAssertions, comp, held, registrars,
                    allocRegistrars, injectOnFull, hitUnreachable, events >>

\* line 123: f returns r, catch_unwind(f) is Ok(r)
FReturns(t, r) ==
    /\ Running /\ pc[t] = "run" /\ fault[t] = NoFault
    /\ caught' = [caught EXCEPT ![t] = Ok(r)]
    /\ comp' = [comp EXCEPT ![t] = [kind |-> "ok", value |-> r]]
    /\ pc' = [pc EXCEPT ![t] = "match"]
    /\ UNCHANGED << SET_HOOK, panicHook, allocHook, mailbox, fault, result,
                    abortedBy, debugAssertions, held, registrars,
                    allocRegistrars, injectOnFull, hitUnreachable, events >>

\* --------------------------------------------------------------- faults
\* A memory request for layout l cannot be satisfied, inside the closure of
\* catch_oom (pc = "run") or in code outside catch_oom (pc = "idle").  The
\* runtime calls the registered alloc error hook; the default one aborts.
\* lines 93-96, oom_hook(layout): inject(AllocError(layout)), then panic!.
\* inject starts with debug_assert!(!has_error()): a debug build panics there
\* and leaves the cell as it is, a release build overwrites the cell.
AllocFails(t, l) ==
    /\ Running /\ fault[t] = NoFault
    /\ \/ /\ pc[t] = "run"
          /\ comp' = [comp EXCEPT ![t] = [kind |-> "oom", layout |-> l]]
          /\ events' = events
       \/ /\ pc[t] = "idle"
          /\ events < MaxEvents
          /\ events' = events + 1
          /\ comp' = comp
    /\ IF allocHook = "oom_hook"
       THEN /\ abortedBy' = abortedBy
            /\ injectOnFull' = (injectOnFull \/ has_error(mailbox, t))
            /\ IF debugAssertions /\ has_error(mailbox, t)
               THEN /\ mailbox' = mailbox
                    /\ fault' = [fault EXCEPT ![t] =
                                    [at |-> "panic", from |-> "assert", flag |-> SET_HOOK]]
               ELSE /\ mailbox' = inject(mailbox, t, AllocError_new(l))
                    /\ fault' = [fault EXCEPT ![t] =
                                    [at |-> "panic", from |-> "oom", flag |-> SET_HOOK]]
       ELSE /\ abortedBy' = t
            /\ UNCHANGED << fault, mailbox, injectOnFull >>
    /\ UNCHANGED << SET_HOOK, panicHook, allocHook, pc, caught, result,
                    debugAssertions, held, registrars,
                    allocRegistrars, hitUnreachable >>

\* A panic that is not an allocation failure is raised, inside the closure of
\* catch_oom or in code outside catch_oom.
Panics(t) ==
    /\ Running /\ fault[t] = NoFault
    /\ \/ /\ pc[t] = "run"
          /\ comp' = [comp EXCEPT ![t] = [kind |-> "fault"]]
          /\ events' = events
       \/ /\ pc[t] = "idle"
          /\ events < MaxEvents
          /\ events' = events + 1
          /\ comp' = comp
    /\ fault' = [fault EXCEPT ![t] =
                    [at |-> "panic", from |-> "other", flag |-> SET_HOOK]]
    /\ UNCHANGED << SET_HOOK, panicHook, allocHook, mailbox, pc, caught, result,
                    abortedBy, debugAssertions, held, registrars,
                    allocRegistrars, injectOnFull, hitUnreachable >>

\* The runtime calls the registered panic hook, then unwinds.
\* lines 107-112, panic_hook: abort unless has_error(); the default hook
\* prints the message and returns.  Inside the closure the unwind ends at
\* catch_unwind(f) of line 123, which is Err(payload).
PanicHookCall(t) ==
    /\ Running /\ fault[t].at = "panic"
    /\ IF panicHook = "panic_hook" /\ PanicHookAborts(mailbox, t)
       THEN /\ abortedBy' = t
            /\ UNCHANGED << fault, pc, caught >>
       ELSE /\ abortedBy' = abortedBy
            /\ IF pc[t] = "run"
               THEN /\ fault' = [fault EXCEPT ![t] = NoFault]
                    /\ caught' = [caught EXCEPT ![t] = Err("payload")]
                    /\ pc' = [pc EXCEPT ![t] = "match"]
               ELSE /\ fault' = [fault EXCEPT ![t] = [fault[t] EXCEPT !.at = "unwind"]]
                    /\ UNCHANGED << pc, caught >>
    /\ UNCHANGED << SET_HOOK, panicHook, allocHook, mailbox, result,
                    debugAssertions, comp, held, registrars,
                    allocRegistrars, injectOnFull, hitUnreachable, events >>

\* An unwind outside catch_oom is caught by a handler of the application:
\* the thread goes on, its mailbox as the hooks left it.
UnwindCaught(t) ==
    /\ Running /\ fault[t].at = "unwind" /\ pc[t] = "idle"
    /\ fault' = [fault EXCEPT ![t] = NoFault]
    /\ UNCHANGED << SET_HOOK, panicHook, allocHook, mailbox, pc, caught, result,
                    abortedBy, debugAssertions, comp, held, registrars,
                    allocRegistrars, injectOnFull, hitUnreachable, events >>

\* An unwind outside catch_oom reaches the bottom of the thread's stack: the
\* thread ends and its thread-local cell is destroyed.
ThreadEnds(t) ==
    /\ Running /\ fault[t].at = "unwind" /\ pc[t] = "idle"
    /\ fault' = [fault EXCEPT ![t] = NoFault]
    /\ pc' = [pc EXCEPT ![t] = "dead"]
    /\ mailbox' = [mailbox EXCEPT ![t] = None]
    /\ UNCHANGED << SET_HOOK, panicHook, allocHook, caught, result,
                    abortedBy, debugAssertions, comp, held, registrars,
                    allocRegistrars, injectOnFull, hitUnreachable, events >>

\* lines 124-125: match result { Ok(r) => Ok(r), .. }
MatchOk(t) ==
    /\ Running /\ pc[t] = "match" /\ IsOk(caught[t])
    /\ result' = [result EXCEPT ![t] = Ok(caught[t].ok)]
    /\ caught' = [caught EXCEPT ![t] = NoCatch]
    /\ pc' = [pc EXCEPT ![t] = "idle"]
    /\ UNCHANGED << SET_HOOK, panicHook, allocHook, mailbox, fault, abortedBy,
                    debugAssertions, comp, held, registrars,
                    allocRegistrars, injectOnFull, hitUnreachable, events >>

\* lines 126-131: Err(_) => match ThreadAllocError::take() {
\*     None => unreachable!(), Some(e) => Err(e) }
\* unreachable!() is a panic raised in catch_oom itself, after catch_unwind.
MatchErr(t) ==
    /\ Running /\ pc[t] = "match" /\ IsErr(caught[t])
    /\ mailbox' = take(mailbox, t).mb
    /\ caught' = [caught EXCEPT ![t] = NoCatch]
    /\ pc' = [pc EXCEPT ![t] = "idle"]
    /\ IF take(mailbox, t).ret = None
       THEN /\ hitUnreachable' = TRUE
            /\ fault' = [fault EXCEPT ![t] =
                            [at |-> "panic", from |-> "unreachable", flag |-> SET_HOOK]]
            /\ result' = result
       ELSE /\ hitUnreachable' = hitUnreachable
            /\ fault' = fault
            /\ result' = [result EXCEPT ![t] = Err(take(mailbox, t).ret[1])]
    /\ UNCHANGED << SET_HOOK, panicHook, allocHook, abortedBy,
                    debugAssertions, comp, held, registrars,
                    allocRegistrars, injectOnFull, events >>

\* ----------------------------------------------------------------- Next
Next ==
    \E t \in Threads :
        \/ Call(t)
        \/ LoadFlag(t)
        \/ TryNewErr(t)
        \/ SetHook(t)
        \/ SetAllocErrorHook(t)
        \/ StoreFlag(t)
        \/ Clear(t)
        \/ \E r \in Values : FReturns(t, r)
        \/ \E l \in Layouts : AllocFails(t, l)
        \/ Panics(t)
        \/ PanicHookCall(t)
        \/ UnwindCaught(t)
        \/ ThreadEnds(t)
        \/ MatchOk(t)
        \/ MatchErr(t)

Spec == Init /\ [][Next]_vars

\* The steps of thread t between its entry into catch_oom and its return,
\* the outcome of its closure included.
CatchOomStep(t) ==
    /\ pc[t] \notin {"idle", "dead"}
    /\ \/ LoadFlag(t)
       \/ TryNewErr(t)
       \/ SetHook(t)
       \/ SetAllocErrorHook(t)
       \/ StoreFlag(t)
       \/ Clear(t)
       \/ \E r \in Values : FReturns(t, r)
       \/ \E l \in Layouts : AllocFails(t, l)
       \/ Panics(t)
       \/ PanicHookCall(t)
       \/ MatchOk(t)
       \/ MatchErr(t)

\* Thread 1 keeps running while it is inside catch_oom and its closure
\* finishes; nothing is assumed of the other threads, which may stop anywhere.
LiveSpec == Init /\ [][Next]_vars /\ WF_vars(CatchOomStep(1))

\* =============================================================== claims
\* Both hooks of lines 117-118 are registered.
PolicyInstalled == panicHook = "panic_hook" /\ allocHook = "oom_hook"

\* The invocation of catch_oom on t is between its entry and its return.
InCatchOom(t) == pc[t] \notin {"idle", "dead"}

\* The last invocation of catch_oom on t has left catch_oom.
Left(t) == pc[t] \in {"idle", "dead"}

\* A result belongs to the closure that ran: Ok(v) to a closure that returned
\* v, Err of layout l to a closure that failed to allocate l; an invocation
\* that ran no closure returned the error of line 116.
Paired(t) ==
    /\ IsOk(result[t]) => (comp[t].kind = "ok" /\ result[t].ok = comp[t].value)
    /\ IsErr(result[t]) =>
          \/ comp[t].kind = "oom" /\ layout(result[t].err) = comp[t].layout
          \/ comp[t] = NoComp /\ result[t].err = AllocError_new(HookLayout)
    /\ (Left(t) /\ comp[t].kind = "ok") => IsOk(result[t])
    /\ (Left(t) /\ comp[t].kind = "oom") => IsErr(result[t])

\* C1: an invocation of catch_oom whose closure raised a panic that is not an
\* allocation failure never returns a value: its thread is still before the
\* call of the panic hook, or it has aborted the process.
C1_OtherFaultAborts ==
    \A t \in Threads :
        comp[t].kind = "fault" =>
            /\ result[t] = NoResult
            /\ \/ abortedBy = t
               \/ pc[t] = "run" /\ fault[t].at = "panic" /\ fault[t].from = "other"

C1_Witness ==
    \E t \in Threads : comp[t].kind = "fault" /\ abortedBy = t /\ pc[t] = "run"

\* C2: when the closure run by catch_oom on t fails to allocate layout l, the
\* hook stores AllocError(l) in the mailbox of t and raises an unwind without
\* aborting, and the invocation returns Err(e) with e.layout() = l.
C2_OomReturnsErr ==
    \A t \in Threads :
        comp[t].kind = "oom" =>
            /\ InCatchOom(t) =>
                  /\ mailbox[t] = Some(AllocError_new(comp[t].layout))
                  /\ abortedBy # t
            /\ pc[t] = "run" => (fault[t].at = "panic" /\ fault[t].from = "oom")
            /\ Left(t) =>
                  /\ IsErr(result[t])
                  /\ layout(result[t].err) = comp[t].layout

C2_Witness ==
    \E t \in Threads :
        /\ comp[t].kind = "oom" /\ pc[t] = "idle"
        /\ IsErr(result[t]) /\ layout(result[t].err) = comp[t].layout

\* C3: an invocation of catch_oom whose closure returns v returns Ok(v), and
\* the mailbox of its thread is empty at the return.
C3_OkReturnsOk ==
    [][ \A t \in Threads :
            (pc[t] = "match" /\ pc'[t] = "idle" /\ comp[t].kind = "ok") =>
                (result'[t] = Ok(comp[t].value) /\ mailbox'[t] = None) ]_vars

C3_Witness ==
    \E t \in Threads :
        /\ comp[t].kind = "ok" /\ pc[t] = "idle" /\ result[t] = Ok(comp[t].value)
        /\ held[t] # None /\ mailbox[t] = None

\* C4: with several threads in catch_oom at once, every thread's result is
\* paired with its own closure, and a mailbox that holds a descriptor during
\* an invocation holds the one of its own thread's closure.
C4_NoCrossThreadMixing ==
    \A t \in Threads :
        /\ Paired(t)
        /\ (pc[t] \in {"run", "match"} /\ mailbox[t] # None) =>
              (comp[t].kind = "oom" /\ mailbox[t] = Some(AllocError_new(comp[t].layout)))

C4_Witness ==
    \E t, u \in Threads :
        /\ t # u
        /\ pc[t] = "match" /\ comp[t].kind = "oom"
        /\ pc[u] = "match" /\ comp[u].kind = "oom"
        /\ comp[t].layout # comp[u].layout
        /\ mailbox[t] = Some(AllocError_new(comp[t].layout))
        /\ mailbox[u] = Some(AllocError_new(comp[u].layout))

\* C5: the registration of the two hooks is executed a single time over the
\* life of the process: at most one thread executes set_hook and at most one
\* executes set_alloc_error_hook.
C5_RegistrationOnce ==
    /\ Cardinality(registrars) <= 1
    /\ Cardinality(allocRegistrars) <= 1

\* C6: once the policy is installed (the flag is set and both hooks are
\* registered when the failure happens), an allocation failure on a thread
\* that is not inside catch_oom aborts the process: its unwind never
\* propagates.
C6_OutsideOomAborts ==
    \A t \in Threads :
        ~ ( /\ PolicyInstalled
            /\ pc[t] = "idle"
            /\ fault[t].at = "unwind"
            /\ fault[t].from = "oom"
            /\ fault[t].flag )

\* C7: the mailbox of a thread is empty when the closure of an invocation
\* starts, whatever it held at the entry; it is empty at every return of
\* catch_oom; and every result is paired with the closure of its own
\* invocation.
C7_MailboxEmptyAtStart ==
    /\ [](\A t \in Threads :
            /\ (pc[t] = "run" /\ comp[t] = NoComp) => mailbox[t] = None
            /\ Paired(t))
    /\ [][ \A t \in Threads :
             (pc[t] = "match" /\ pc'[t] = "idle" /\ result'[t] # NoResult) =>
                 mailbox'[t] = None ]_vars

C7_Witness ==
    \E t \in Threads :
        /\ pc[t] = "run" /\ comp[t] = NoComp
        /\ held[t] # None /\ mailbox[t] = None

C9_HookReadsOwnMailbox ==
    [][ \A t \in Threads :
            ( /\ fault[t].at = "panic"
              /\ panicHook = "panic_hook"
              /\ (fault'[t] # fault[t] \/ abortedBy' = t) ) =>
                IF mailbox[t] = None
                THEN abortedBy' = t
                ELSE /\ abortedBy' = 0
                     /\ (pc'[t] = "match" \/ fault'[t].at = "unwind") ]_vars

C9_Witness ==
    \E t, u \in Threads :
        /\ t # u
        /\ abortedBy = t
        /\ fault[t].at = "panic" /\ fault[t].from = "other"
        /\ mailbox[t] = None
        /\ mailbox[u] # None

\* C10: whenever oom_hook calls inject, the mailbox of the thread is empty:
\* the debug assertion of line 68 never fails and no pending descriptor is
\* overwritten.
C10_InjectOnEmpty == ~injectOnFull

\* The step is one of thread t: t moved in catch_oom or in the handling of a
\* fault, or t aborted the process.
StepOf(t) == pc'[t] # pc[t] \/ fault'[t] # fault[t] \/ (abortedBy = 0 /\ abortedBy' = t)

\* C11: the flag SET_HOOK never changes back from true to false, so it changes
\* from false to true at most once over the life of the process; every store
\* of line 119, the first and the ones of the threads that raced with it,
\* leaves it true.
C11_FlagSetOnce ==
    [][ /\ SET_HOOK => SET_HOOK'
        /\ \A t \in Threads : (pc[t] = "store" /\ pc'[t] # "store") => SET_HOOK' ]_vars

C11_Witness ==
    /\ SET_HOOK
    /\ Cardinality(allocRegistrars) >= 2
    /\ \A t \in allocRegistrars : pc[t] # "store"

\* C12: in every invocation the installation step comes first: until it is
\* over the invocation has not touched the mailbox (it holds what it held at
\* the entry) and the closure has not run; the mailbox is cleared only once
\* the flag is set, and it is empty when the closure starts.
C12_InstallThenClearThenRun ==
    \A t \in Threads :
        /\ pc[t] \in {"load", "try_new", "set_alloc_error_hook", "store", "clear"} =>
              (mailbox[t] = held[t] /\ comp[t] = NoComp)
        /\ pc[t] \in {"clear", "run", "match"} => SET_HOOK
        /\ (pc[t] = "run" /\ comp[t] = NoComp) => mailbox[t] = None

C12_Witness ==
    \E t \in Threads :
        pc[t] = "store" /\ held[t] # None /\ mailbox[t] = held[t]

\* The flag, the two hook slots and the record of who registered are as before.
InstallFrame ==
    UNCHANGED << SET_HOOK, panicHook, allocHook, registrars, allocRegistrars >>

\* C13: an invocation that reads the flag as true goes straight to the clear
\* of the mailbox; from the load on, none of its steps writes the flag or a
\* hook slot, and none touches the mailbox of another thread.
C13_InstalledCallLeavesPolicy ==
    [][ \A t \in Threads :
          /\ (pc[t] = "load" /\ SET_HOOK /\ StepOf(t)) =>
                (pc'[t] = "clear" /\ InstallFrame /\ mailbox' = mailbox)
          /\ (pc[t] \in {"clear", "run", "match"} /\ StepOf(t)) =>
                /\ InstallFrame
                /\ \A u \in Threads \ {t} : mailbox'[u] = mailbox[u] ]_vars

C13_Witness ==
    \E t \in Threads :
        /\ pc[t] = "idle" /\ IsOk(result[t])
        /\ t \notin registrars /\ t \notin allocRegistrars
        /\ PolicyInstalled /\ SET_HOOK

\* C14: catch_oom waits on no other thread: when only the calling thread is
\* scheduled fairly and its closure finishes, every invocation it enters
\* returns a result or the process is aborted, wherever the other threads
\* stop, the middle of the registration included.
C14_NoWaiting ==
    (pc[1] \notin {"idle", "dead"}) ~> (result[1] # NoResult \/ abortedBy # 0)

C14_Witness ==
    /\ pc[1] = "idle" /\ result[1] # NoResult /\ comp[1] # NoComp
    /\ \E u \in Threads \ {1} : pc[u] \in {"try_new", "set_alloc_error_hook", "store"}

\* C15: a thread that is running its closure inside catch_oom, or has the
\* outcome of the closure at the match, has both hooks registered; and whenever
\* the flag is set both hooks are registered.
C15_HooksRegisteredWhileRunning ==
    /\ \A t \in Threads : pc[t] \in {"clear", "run", "match"} => PolicyInstalled
    /\ SET_HOOK => PolicyInstalled

C15_Witness ==
    \E t \in Threads :
        /\ pc[t] = "run" /\ comp[t] = NoComp
        /\ Cardinality(registrars) >= 2
        /\ PolicyInstalled

\* C16: when Box::try_new fails in the installation step, catch_oom returns
\* Err(AllocError) of the layout of Hook without running the closure, and the
\* invocation changes nothing: none of its steps (the entry, the load, the
\* failing try_new) writes the flag or a hook slot, the thread has registered
\* no hook, and its mailbox holds at the return what it held at the entry.
C16_TryNewFailureChangesNothing ==
    [][ \A t \in Threads :
          /\ (pc[t] \in {"idle", "load"} /\ pc'[t] \in {"load", "try_new"} /\ StepOf(t)) =>
                (InstallFrame /\ mailbox' = mailbox)
          /\ (pc[t] = "try_new" /\ pc'[t] = "idle") =>
                /\ result'[t] = Err(AllocError_new(HookLayout))
                /\ layout(result'[t].err) = [size |-> 16, align |-> 8]
                /\ comp'[t] = NoComp
                /\ InstallFrame
                /\ t \notin registrars' \cup allocRegistrars'
                /\ mailbox' = mailbox
                /\ mailbox'[t] = held[t] ]_vars

C16_Witness ==
    \E t \in Threads :
        /\ pc[t] = "idle" /\ comp[t] = NoComp
        /\ result[t] = Err(AllocError_new(HookLayout))
        /\ held[t] # None /\ mailbox[t] = held[t]
        /\ ~SET_HOOK

\* C17: on every mailbox the program reaches, take returns what the cell of
\* the thread holds and leaves that cell empty and the other cells as they
\* are, so that has_error is false after it and a second take returns
\* nothing; clear twice is clear once; and the steps that apply them behave
\* so: the clear of line 122 and the take of line 126 leave the cell empty,
\* the take hands over the descriptor, and a run of panic_hook, which only
\* calls has_error, leaves every mailbox unchanged.
C17_MailboxOperations ==
    /\ [](\A t \in Threads :
            LET tk == take(mailbox, t) IN
            /\ tk.ret = mailbox[t]
            /\ tk.mb[t] = None
            /\ \A u \in Threads \ {t} : tk.mb[u] = mailbox[u]
            /\ ~has_error(tk.mb, t)
            /\ take(tk.mb, t).ret = None
            /\ take(tk.mb, t).mb = tk.mb
            /\ clear(mailbox, t) = tk.mb
            /\ clear(clear(mailbox, t), t) = clear(mailbox, t)
            /\ has_error(mailbox, t) <=> (mailbox[t] # None))
    /\ [][ \A t \in Threads :
             /\ (pc[t] = "clear" /\ StepOf(t)) =>
                   mailbox' = [mailbox EXCEPT ![t] = None]
             /\ (pc[t] = "match" /\ IsErr(caught[t]) /\ StepOf(t)) =>
                   /\ mailbox' = [mailbox EXCEPT ![t] = None]
                   /\ mailbox[t] # None => result'[t] = Err(mailbox[t][1])
             /\ (fault[t].at = "panic" /\ StepOf(t)) => mailbox' = mailbox ]_vars

C17_Witness ==
    \E t \in Threads :
        /\ pc[t] = "idle" /\ comp[t].kind = "oom"
        /\ result[t] = Err(AllocError_new(comp[t].layout))
        /\ ~has_error(mailbox, t)
        /\ take(mailbox, t).ret = None
====
